---- MODULE Spec2Model ----
(***************************************************************************)
(* A model of the yafowil widget execution engine: RuntimeData, the        *)
(* Widget extract/render pipeline, the Factory's blueprint composition and *)
(* the compound (parent/children) protocol.                                *)
(*   src/src/yafowil/base.py      Unset, RuntimeData, ExtractionError,     *)
(*                                Widget, Factory                          *)
(*   src/src/yafowil/compound.py  compound_extractor, compound_renderer,   *)
(*                                compound_preprocessor, fieldset, form    *)
(***************************************************************************)
EXTENDS Integers, Sequences, FiniteSets, TLC

VARIABLES
    widgets,               \* the widget tree: widget id -> Widget fields
    factories,             \* Factory._factories: blueprint name -> 4-tuple
    global_preprocessors,  \* Factory._global_preprocessors
    data,                  \* the RuntimeData the caller holds (NoData: none)
    log,                   \* the callables invoked, in invocation order
    result,                \* outcome of the last operation
    op                     \* the last operation and its arguments

vars == <<widgets, factories, global_preprocessors, data, log, result, op>>

(***************************************************************************)
(* Bounds of the model.                                                    *)
(***************************************************************************)
MaxNodes == 3
MaxChain == 3
MaxChildren == 2
MaxCalls == 2
MaxNames == 2
MaxGlobals == 2

SeqsUpTo(S, n) == UNION {[1..k -> S] : k \in 0..n}

(***************************************************************************)
(* Python values.  Every value is a record tagged by its type in t.        *)
(***************************************************************************)
UNSET == [t |-> "unset"]
None == [t |-> "none"]
PyInt(n) == [t |-> "int", v |-> n]
PyStr(s) == [t |-> "str", v |-> s]
PyList(s) == [t |-> "list", v |-> s]
PyDict(keys, vals) == [t |-> "dict", k |-> keys, v |-> vals]

\* RuntimeData.__init__: a dict holding three empty lists.  keys is the set
\* of keys present; request and value are meaningful only when their key is.
RuntimeData ==
    [t |-> "rd", keys |-> {"extracted", "rendered", "errors"},
     request |-> None, value |-> None,
     extracted |-> <<>>, rendered |-> <<>>, errors |-> <<>>]

\* ExtractionError.__init__
ExtractionError(msg, abort) ==
    [t |-> "ExtractionError", msg |-> msg, abort |-> abort, args |-> <<msg>>]

\* Outcome of a call: a returned value or a raised exception.
Return(v) == [exc |-> "none", ret |-> v]
Raise(e) == [exc |-> e, ret |-> None]

IsRuntimeData(x) == x.t = "rd"
\* isinstance(x, dict): RuntimeData subclasses dict
IsDict(x) == x.t \in {"dict", "rd"}
IsList(x) == x.t = "list"

\* dict.values(), in iteration order
DictValues(x) ==
    IF x.t = "dict" THEN x.v
    ELSE <<PyList(x.extracted), PyList(x.rendered), PyList(x.errors)>>
         \o (IF "request" \in x.keys THEN <<x.request>> ELSE <<>>)
         \o (IF "value" \in x.keys THEN <<x.value>> ELSE <<>>)

\* bool(x); Unset.__nonzero__ returns False
Truthy(x) ==
    CASE x.t = "unset" -> FALSE
      [] x.t = "none" -> FALSE
      [] x.t = "int" -> x.v # 0
      [] x.t = "str" -> x.v # ""
      [] x.t = "list" -> Len(x.v) > 0
      [] x.t = "dict" -> Len(x.k) > 0
      [] OTHER -> TRUE

\* an accessor that takes the first entry
LastIsFirst(d, key, default) ==
    LET s == IF key = "extracted" THEN d.extracted ELSE d.rendered
    IN  IF Len(s) = 0 THEN default ELSE s[1]

\* RuntimeData._last
Last(d, key, default) ==
    LET s == IF key = "extracted" THEN d.extracted ELSE d.rendered
    IN  IF Len(s) = 0 THEN default ELSE s[Len(s)]

last_extracted(d) == Last(d, "extracted", UNSET)
last_rendered(d) == Last(d, "rendered", PyStr(""))

CountRuntimeData(s) == Cardinality({i \in 1..Len(s) : IsRuntimeData(s[i])})

RECURSIVE HasExtracted(_), ListScan(_, _, _), DictScan(_, _), DictScanAll(_, _)

\* a list scan that falls back to the truthiness of the list
ListScanTruthy(s, i, found) == Return(Len(s) > 0)

\* line 55: bool([_ for _ in last if _.has_extracted]); every element is
\* evaluated in order, an element without the attribute raises.
ListScan(s, i, found) ==
    IF i > Len(s) THEN Return(found)
    ELSE IF ~IsRuntimeData(s[i]) THEN Raise("AttributeError")
    ELSE LET r == HasExtracted(s[i])
         IN  IF r.exc # "none" THEN r
             ELSE ListScan(s, i + 1, found \/ r.ret)

\* a mapping scan that wants every child to have extracted
DictScanAll(s, i) ==
    IF i > Len(s) THEN Return(TRUE)
    ELSE LET r == HasExtracted(s[i])
         IN  IF r.exc # "none" THEN r
             ELSE IF ~r.ret THEN Return(FALSE)
             ELSE DictScanAll(s, i + 1)

\* lines 64-67: the first child that has extracted ends the loop
DictScan(s, i) ==
    IF i > Len(s) THEN Return(FALSE)
    ELSE LET r == HasExtracted(s[i])
         IN  IF r.exc # "none" THEN r
             ELSE IF r.ret THEN Return(TRUE)
             ELSE DictScan(s, i + 1)

\* RuntimeData.has_extracted
HasExtracted(d) ==
    LET last == last_extracted(d)
    IN  IF ~IsDict(last)
        THEN IF IsList(last) /\ CountRuntimeData(last.v) > 0
             THEN ListScan(last.v, 1, FALSE)
             ELSE Return(Truthy(last))
        ELSE LET values == DictValues(last)
                 lvalues == Len(values)
                 ldata == CountRuntimeData(values)
             IN  IF ldata = 0 THEN Return(lvalues > 0)
                 ELSE IF ldata # lvalues THEN Raise("ValueError")
                 ELSE DictScan(values, 1)

(***************************************************************************)
(* str() and repr() of the values.                                         *)
(***************************************************************************)
Digits == <<"0", "1", "2", "3", "4", "5", "6", "7", "8", "9">>

RECURSIVE IntStr(_)
IntStr(n) == IF n < 10 THEN Digits[n + 1] ELSE IntStr(n \div 10) \o Digits[(n % 10) + 1]

RECURSIVE Repr(_), ReprSeq(_, _), ReprItems(_, _, _)
ReprSeq(s, i) ==
    IF i > Len(s) THEN ""
    ELSE Repr(s[i]) \o (IF i < Len(s) THEN ", " ELSE "") \o ReprSeq(s, i + 1)
ReprItems(k, v, i) ==
    IF i > Len(k) THEN ""
    ELSE "'" \o k[i] \o "': " \o Repr(v[i]) \o (IF i < Len(k) THEN ", " ELSE "")
         \o ReprItems(k, v, i + 1)
\* repr(x); Unset.__repr__ and RuntimeData.__repr__ (keys sorted)
Repr(x) ==
    CASE x.t = "unset" -> "<UNSET>"
      [] x.t = "none" -> "None"
      [] x.t = "int" -> IntStr(x.v)
      [] x.t = "str" -> "'" \o x.v \o "'"
      [] x.t = "list" -> "[" \o ReprSeq(x.v, 1) \o "]"
      [] x.t = "dict" -> "{" \o ReprItems(x.k, x.v, 1) \o "}"
      [] x.t = "rd" ->
           "{'errors': " \o Repr(PyList(x.errors))
           \o ", 'extracted': " \o Repr(PyList(x.extracted))
           \o ", 'rendered': " \o Repr(PyList(x.rendered))
           \o (IF "request" \in x.keys THEN ", 'request': " \o Repr(x.request) ELSE "")
           \o (IF "value" \in x.keys THEN ", 'value': " \o Repr(x.value) ELSE "")
           \o "}"
      [] OTHER -> x.t \o "()"

\* str(x); Unset.__str__ returns ''
StrOf(x) ==
    CASE x.t = "unset" -> ""
      [] x.t = "str" -> x.v
      [] OTHER -> Repr(x)

(***************************************************************************)
(* The widget tree.  A widget is                                           *)
(*   [name, getter, extractors, renderers, preprocessors, delegation,      *)
(*    children, parent]                                                    *)
(* children is the ordered sequence of the children's ids, parent is 0 for *)
(* a root.  Callables are named by strings; a callable getter is the       *)
(* record [t |-> "callable", ret |-> the value it returns].                *)
(***************************************************************************)
\* Widget.__init__
Widget(extractors, renderers, preprocessors, uniquename, value_or_getter, delegation) ==
    [name |-> uniquename, getter |-> value_or_getter,
     extractors |-> extractors, renderers |-> renderers,
     preprocessors |-> preprocessors, delegation |-> delegation,
     children |-> <<>>, parent |-> 0]

CallableGetter(v) == [t |-> "callable", ret |-> v]

RECURSIVE Path(_, _)
\* LifecycleNode.path: the names from the root down to the widget
Path(ws, w) ==
    IF ws[w].parent = 0 THEN <<ws[w].name>>
    ELSE Append(Path(ws, ws[w].parent), ws[w].name)

\* an exception other than ExtractionError
Exception(type) == [t |-> type, args |-> <<>>]

\* e.args = [a for a in e.args] + [str(callable)] + self.path
Annotate(e, c, path) == [e EXCEPT !.args = @ \o <<c>> \o path]

HasKey(d, key) == \E i \in 1..Len(d.k) : d.k[i] = key
Lookup(d, key) == d.v[CHOOSE i \in 1..Len(d.k) : d.k[i] = key]

(***************************************************************************)
(* Outcomes of the engine's calls: g is the state a call may change (the   *)
(* widget tree ws and the log), d the RuntimeData the call works on.       *)
(***************************************************************************)
Ok(g, d, v) == [g |-> g, d |-> d, exc |-> "none", err |-> None, ret |-> v]
Fail(g, d, e) == [g |-> g, d |-> d, exc |-> e.t, err |-> e, ret |-> None]
Logged(g, e) == [g EXCEPT !.log = Append(@, e)]

(***************************************************************************)
(* The pluggable callables the model supplies (the engine treats them as   *)
(* opaque) and the compound protocol.                                      *)
(***************************************************************************)
RECURSIVE Extract(_, _, _), WidgetCall(_, _, _, _)
RECURSIVE CompoundExtractLoop(_, _, _, _, _), CompoundRenderLoop(_, _, _, _, _)
RECURSIVE DelegateLoop(_, _, _, _)

\* compound_extractor: result[childname] = widget[childname].extract(data['request'])
CompoundExtractLoop(g, w, i, d, acc) ==
    IF i > Len(g.ws[w].children) THEN Ok(g, d, acc)
    ELSE LET child == g.ws[w].children[i]
             r == Extract(g, child, d.request)
         IN  IF r.exc # "none" THEN Fail(r.g, d, r.err)
             ELSE CompoundExtractLoop(r.g, w, i + 1, d,
                     PyDict(Append(acc.k, g.ws[child].name), Append(acc.v, r.ret)))

\* a compound extractor that hands the children an empty request
compound_extractor_norequest(g, w, d) ==
    LET r == CompoundExtractLoop(g, w, 1, [d EXCEPT !.request = PyDict(<<>>, <<>>)],
                                 PyDict(<<>>, <<>>))
    IN  [r EXCEPT !.d = d]

compound_extractor(g, w, d) ==
    IF "request" \notin d.keys THEN Fail(g, d, Exception("KeyError"))
    ELSE CompoundExtractLoop(g, w, 1, d, PyDict(<<>>, <<>>))

\* an entry other than the first: the last one
LastEntry(d) == d.extracted[Len(d.extracted)]

\* data['extracted'][0]
FirstEntry(d) == d.extracted[1]

\* data['extracted'][0][childname]
SubRecord(first, childname) ==
    CASE first.t = "dict" ->
           IF HasKey(first, childname) THEN Return(Lookup(first, childname))
           ELSE Raise("KeyError")
      [] first.t = "rd" ->
           IF childname \in first.keys
           THEN Return(CASE childname = "extracted" -> PyList(first.extracted)
                         [] childname = "rendered" -> PyList(first.rendered)
                         [] childname = "errors" -> PyList(first.errors)
                         [] childname = "request" -> first.request
                         [] OTHER -> first.value)
           ELSE Raise("KeyError")
      [] OTHER -> Raise("TypeError")

\* the child's record, changed in place by the child's rendering, as the
\* parent's first extracted entry holds it
WriteBack(d, childname, sub) ==
    IF d.extracted[1].t = "dict"
    THEN [d EXCEPT !.extracted[1].v =
            [j \in 1..Len(@) |-> IF d.extracted[1].k[j] = childname THEN sub ELSE @[j]]]
    ELSE d

\* compound_renderer
CompoundRenderLoop(g, w, i, d, acc) ==
    IF i > Len(g.ws[w].children) THEN Ok(g, d, PyStr(acc))
    ELSE LET child == g.ws[w].children[i]
             childname == g.ws[child].name
             given == Len(d.extracted) > 0
             sub == IF given THEN SubRecord(FirstEntry(d), childname) ELSE Return(None)
         IN  IF sub.exc # "none" THEN Fail(g, d, Exception(sub.exc))
             ELSE LET r == WidgetCall(g, child, d.request, sub.ret)
                      d2 == IF given /\ IsRuntimeData(sub.ret)
                            THEN WriteBack(d, childname, r.d) ELSE d
                  IN  IF r.exc # "none" THEN Fail(r.g, d2, r.err)
                      ELSE IF r.ret.t # "str" THEN Fail(r.g, d2, Exception("TypeError"))
                      ELSE CompoundRenderLoop(r.g, w, i + 1, d2, acc \o r.ret.v)

compound_renderer(g, w, d) ==
    IF ~IsRuntimeData(d) THEN Fail(g, d, Exception("TypeError"))
    ELSE IF Len(g.ws[w].children) > 0 /\ "request" \notin d.keys
    THEN Fail(g, d, Exception("KeyError"))
    ELSE CompoundRenderLoop(g, w, 1, d, "")

\* value.get(childname, None)
GetOrNone(value, childname) ==
    IF value.t = "dict" /\ HasKey(value, childname) THEN Lookup(value, childname) ELSE None

\* compound_preprocessor: widget[childname].getter = data['value'].get(childname, None)
DelegateLoop(g, w, i, d) ==
    IF i > Len(g.ws[w].children) THEN Ok(g, d, d)
    ELSE LET child == g.ws[w].children[i]
         IN  IF ~IsDict(d.value) THEN Fail(g, d, Exception("AttributeError"))
             ELSE DelegateLoop(
                     [g EXCEPT !.ws[child].getter = GetOrNone(d.value, g.ws[child].name)],
                     w, i + 1, d)

\* a compound preprocessor that delegates whatever the attribute says
compound_preprocessor_always(g, w, d) == DelegateLoop(g, w, 1, d)

compound_preprocessor(g, w, d) ==
    IF g.ws[w].delegation THEN DelegateLoop(g, w, 1, d) ELSE Ok(g, d, d)

\* extractor(self, data)
ExtractorCall(g, w, c, d) ==
    CASE c = "compound_extractor" -> compound_extractor(g, w, d)
      [] c = "ex_value" -> Ok(g, d, d.value)
      [] c = "ex_count" -> Ok(g, d, PyInt(Len(d.extracted)))
      [] c = "ex_soft" -> Fail(g, d, ExtractionError("soft", FALSE))
      [] c = "ex_abort" -> Fail(g, d, ExtractionError("abort", TRUE))
      [] c = "text_extractor" ->
           IF HasKey(d.request, "x") THEN Fail(g, d, ExtractionError("invalid", TRUE))
           ELSE Ok(g, d, d.value)
      [] OTHER -> Fail(g, d, Exception("Exception"))

\* fieldset_renderer: tag('fieldset', data.last_rendered, ...); the tag helper is
\* an external collaborator, its output is kept as the wrapped text
fieldset_renderer(g, w, d) ==
    IF ~IsRuntimeData(d) THEN Fail(g, d, Exception("AttributeError"))
    ELSE Ok(g, d, PyStr("<fieldset>" \o StrOf(last_rendered(d)) \o "</fieldset>"))

\* form_renderer(uname, data, properties) takes three arguments; the engine
\* calls a renderer with two
form_renderer(g, w, d) == Fail(g, d, Exception("TypeError"))

\* renderer(self, data)
RendererCall(g, w, c, d) ==
    IF c = "compound_renderer" THEN compound_renderer(g, w, d)
    ELSE IF c = "fieldset_renderer" THEN fieldset_renderer(g, w, d)
    ELSE IF c = "form_renderer" THEN form_renderer(g, w, d)
    ELSE IF ~IsRuntimeData(d) THEN Fail(g, d, Exception("AttributeError"))
    ELSE CASE c = "text_renderer" -> Ok(g, d, PyStr(StrOf(last_extracted(d))))
           [] c = "value_renderer" -> Ok(g, d, PyStr(StrOf(d.value)))
           [] c = "wrap_renderer" -> Ok(g, d, PyStr("<" \o last_rendered(d).v \o ">"))
           [] OTHER -> Fail(g, d, Exception("Exception"))

\* pp(self, data)
PreprocessorCall(g, w, c, d) ==
    CASE c = "compound_preprocessor" -> compound_preprocessor(g, w, d)
      [] c = "pp_id" -> Ok(g, d, d)
      [] c = "pp_mark" -> Ok(g, d, [d EXCEPT !.value = PyList(<<@>>)])
      [] c = "pp_error" -> Fail(g, d, ExtractionError("pp", TRUE))
      [] OTHER -> Fail(g, d, Exception("Exception"))

(***************************************************************************)
(* Widget                                                                  *)
(***************************************************************************)
RECURSIVE PreprocessorLoop(_, _, _, _), ExtractorLoop(_, _, _, _), RendererLoop(_, _, _, _)
RECURSIVE ExtractorLoopNoBreak(_, _, _, _), ExtractorLoopAppendsNone(_, _, _, _)
RECURSIVE ExtractorLoopRecordsFatal(_, _, _, _)

\* Widget._runpreprocessors, lines 201-207
PreprocessorLoop(g, w, i, d) ==
    IF i > Len(g.ws[w].preprocessors) THEN Ok(g, d, d)
    ELSE LET pp == g.ws[w].preprocessors[i]
             r == PreprocessorCall(Logged(g, [k |-> "preprocessor", w |-> w, i |-> i, c |-> pp]),
                                   w, pp, d)
         IN  IF r.exc # "none" THEN Fail(r.g, r.d, Annotate(r.err, pp, Path(r.g.ws, w)))
             ELSE PreprocessorLoop(r.g, w, i + 1, r.ret)

\* a preprocessing that keeps the resolved value as the widget's getter
RunPreprocessorsCaching(g, w, request, d) ==
    IF "value" \in d.keys /\ "request" \in d.keys THEN Ok(g, d, d)
    ELSE LET getter == g.ws[w].getter
             value == IF getter.t = "callable" THEN getter.ret ELSE getter
             d2 == [d EXCEPT !.request = request, !.value = value,
                             !.keys = @ \cup {"request", "value"}]
             g2 == [g EXCEPT !.ws[w].getter = value]
         IN  PreprocessorLoop(Logged(g2, [k |-> "getter", w |-> w, i |-> 0, c |-> "getter"]),
                              w, 1, d2)

\* Widget._runpreprocessors
RunPreprocessors(g, w, request, d) ==
    IF "value" \in d.keys /\ "request" \in d.keys THEN Ok(g, d, d)
    ELSE LET getter == g.ws[w].getter
             value == IF getter.t = "callable" THEN getter.ret ELSE getter
             d2 == [d EXCEPT !.request = request, !.value = value,
                             !.keys = @ \cup {"request", "value"}]
         IN  PreprocessorLoop(Logged(g, [k |-> "getter", w |-> w, i |-> 0, c |-> "getter"]),
                              w, 1, d2)

\* an extractor loop that goes on after an aborting error
ExtractorLoopNoBreak(g, w, i, d) ==
    IF i > Len(g.ws[w].extractors) THEN Ok(g, d, d)
    ELSE LET extractor == g.ws[w].extractors[i]
             r == ExtractorCall(
                    Logged(g, [k |-> "extractor", w |-> w, i |-> i, c |-> extractor]),
                    w, extractor, d)
         IN  CASE r.exc = "none" ->
                    ExtractorLoopNoBreak(r.g, w, i + 1,
                                         [r.d EXCEPT !.extracted = Append(@, r.ret)])
               [] r.exc = "ExtractionError" ->
                    ExtractorLoopNoBreak(r.g, w, i + 1, [r.d EXCEPT !.errors = Append(@, r.err)])
               [] OTHER -> Fail(r.g, r.d, Annotate(r.err, extractor, Path(r.g.ws, w)))

\* an extractor loop that also appends a value for a failed extractor
ExtractorLoopAppendsNone(g, w, i, d) ==
    IF i > Len(g.ws[w].extractors) THEN Ok(g, d, d)
    ELSE LET extractor == g.ws[w].extractors[i]
             r == ExtractorCall(
                    Logged(g, [k |-> "extractor", w |-> w, i |-> i, c |-> extractor]),
                    w, extractor, d)
         IN  CASE r.exc = "none" ->
                    ExtractorLoopAppendsNone(r.g, w, i + 1,
                                             [r.d EXCEPT !.extracted = Append(@, r.ret)])
               [] r.exc = "ExtractionError" ->
                    LET d2 == [r.d EXCEPT !.errors = Append(@, r.err),
                                          !.extracted = Append(@, None)]
                    IN  IF r.err.abort THEN Ok(r.g, d2, d2)
                        ELSE ExtractorLoopAppendsNone(r.g, w, i + 1, d2)
               [] OTHER -> Fail(r.g, r.d, Annotate(r.err, extractor, Path(r.g.ws, w)))

\* an extractor loop that records any exception in errors before raising it
ExtractorLoopRecordsFatal(g, w, i, d) ==
    IF i > Len(g.ws[w].extractors) THEN Ok(g, d, d)
    ELSE LET extractor == g.ws[w].extractors[i]
             r == ExtractorCall(
                    Logged(g, [k |-> "extractor", w |-> w, i |-> i, c |-> extractor]),
                    w, extractor, d)
         IN  CASE r.exc = "none" ->
                    ExtractorLoopRecordsFatal(r.g, w, i + 1,
                                              [r.d EXCEPT !.extracted = Append(@, r.ret)])
               [] r.exc = "ExtractionError" ->
                    LET d2 == [r.d EXCEPT !.errors = Append(@, r.err)]
                    IN  IF r.err.abort THEN Ok(r.g, d2, d2)
                        ELSE ExtractorLoopRecordsFatal(r.g, w, i + 1, d2)
               [] OTHER -> Fail(r.g, [r.d EXCEPT !.errors = Append(@, r.err)],
                                Annotate(r.err, extractor, Path(r.g.ws, w)))

\* Widget.extract, lines 179-190
ExtractorLoop(g, w, i, d) ==
    IF i > Len(g.ws[w].extractors) THEN Ok(g, d, d)
    ELSE LET extractor == g.ws[w].extractors[i]
             r == ExtractorCall(
                    Logged(g, [k |-> "extractor", w |-> w, i |-> i, c |-> extractor]),
                    w, extractor, d)
         IN  CASE r.exc = "none" ->
                    ExtractorLoop(r.g, w, i + 1, [r.d EXCEPT !.extracted = Append(@, r.ret)])
               [] r.exc = "ExtractionError" ->
                    LET d2 == [r.d EXCEPT !.errors = Append(@, r.err)]
                    IN  IF r.err.abort THEN Ok(r.g, d2, d2)
                        ELSE ExtractorLoop(r.g, w, i + 1, d2)
               [] OTHER -> Fail(r.g, r.d, Annotate(r.err, extractor, Path(r.g.ws, w)))

\* Widget.extract
Extract(g, w, request) ==
    LET p == RunPreprocessors(Logged(g, [k |-> "extract", w |-> w, i |-> 0, c |-> "begin"]),
                              w, request, RuntimeData)
    IN  IF p.exc # "none" THEN p
        ELSE LET r == ExtractorLoop(p.g, w, 1, p.ret)
             IN  IF r.exc # "none" THEN r
                 ELSE Ok(Logged(r.g, [k |-> "extract", w |-> w, i |-> 0, c |-> "end"]),
                         r.d, r.d)

\* Widget.__call__, lines 157-163
RendererLoop(g, w, i, d) ==
    IF i > Len(g.ws[w].renderers) THEN Ok(g, d, d)
    ELSE LET renderer == g.ws[w].renderers[i]
             r == RendererCall(
                    Logged(g, [k |-> "renderer", w |-> w, i |-> i, c |-> renderer]),
                    w, renderer, d)
         IN  IF r.exc # "none"
             THEN Fail(r.g, r.d, Annotate(r.err, renderer, Path(r.g.ws, w)))
             ELSE RendererLoop(r.g, w, i + 1, [r.d EXCEPT !.rendered = Append(@, r.ret)])

\* a dispatch that extracts whatever the request is
DispatchAlwaysExtract(request, dataArg) ==
    IF dataArg = None THEN "extract" ELSE "given"

\* a dispatch that extracts again although a record is passed
DispatchIgnoringData(request, dataArg) ==
    IF ~Truthy(request) /\ dataArg = None THEN "preprocess"
    ELSE IF Truthy(request) THEN "extract"
    ELSE "given"

\* which branch of lines 152-156 an invocation takes
Dispatch(request, dataArg) ==
    IF dataArg = None /\ ~Truthy(request) THEN "preprocess"
    ELSE IF dataArg = None /\ Truthy(request) THEN "extract"
    ELSE "given"

\* Widget.__call__, line 164
WidgetReturn(r) ==
    IF r.exc # "none" THEN r
    ELSE IF ~IsRuntimeData(r.d) THEN Fail(r.g, r.d, Exception("AttributeError"))
    ELSE Ok(r.g, r.d, last_rendered(r.d))

\* a rendering that is skipped when extraction recorded errors
WidgetRenderUnlessErrors(s, w) ==
    IF s.exc # "none" THEN s
    ELSE IF IsRuntimeData(s.ret) /\ s.ret.errors # <<>> THEN WidgetReturn(Ok(s.g, s.ret, s.ret))
    ELSE WidgetReturn(RendererLoop(s.g, w, 1, s.ret))

\* Widget.__call__, lines 157-163 on the record of lines 152-156
WidgetRender(s, w) ==
    IF s.exc # "none" THEN s ELSE WidgetReturn(RendererLoop(s.g, w, 1, s.ret))

\* Widget.__call__, lines 152-156
WidgetDispatch(g1, w, request, dataArg, branch) ==
    CASE branch = "preprocess" -> RunPreprocessors(g1, w, request, RuntimeData)
      [] branch = "extract" -> Extract(g1, w, request)
      [] OTHER -> Ok(g1, dataArg, dataArg)

\* Widget.__call__
WidgetCall(g, w, request, dataArg) ==
    WidgetRender(
        WidgetDispatch(
            Logged(g, [k |-> "call", w |-> w, i |-> 0, c |-> Dispatch(request, dataArg)]),
            w, request, dataArg, Dispatch(request, dataArg)),
        w)

\* the caller holds the root of the tree
Root == 1

(***************************************************************************)
(* Factory.  Blueprint names and reg_names are strings, modelled as        *)
(* sequences of characters.  A blueprint is [ex, ren, pre, sub]: its       *)
(* extractors, renderers, preprocessors and subwidget builders.            *)
(***************************************************************************)
NameB == <<"b">>
NameText == <<"t", "e", "x", "t">>
NameCustom == <<"c">>
Star(name) == <<"*">> \o name

\* name.startswith('*')
StartsWithStar(name) == Len(name) > 0 /\ name[1] = "*"
\* reg_name[1:]
Tail1(name) == SubSeq(name, 2, Len(name))

RECURSIVE Split(_, _, _)
\* reg_names.split(':'): acc holds the characters of the part being read
Split(str, i, acc) ==
    IF i > Len(str) THEN <<acc>>
    ELSE IF str[i] = ":" THEN <<acc>> \o Split(str, i + 1, <<>>)
    ELSE Split(str, i + 1, Append(acc, str[i]))

RECURSIVE Join(_, _)
\* ':'.join(names)
Join(names, i) ==
    IF i > Len(names) THEN <<>>
    ELSE names[i] \o (IF i < Len(names) THEN <<":">> ELSE <<>>) \o Join(names, i + 1)

\* the blueprints the callers of the model register or pass as custom
BlueprintOf(name) ==
    CASE name = NameB ->
           [ex |-> <<"ex_count", "ex_soft">>, ren |-> <<"wrap_renderer">>,
            pre |-> <<"pp_mark">>, sub |-> <<"sub_b">>]
      [] name = NameText ->
           [ex |-> <<"text_extractor">>, ren |-> <<"text_renderer">>,
            pre |-> <<>>, sub |-> <<>>]
      [] OTHER ->
           [ex |-> <<"ex_abort">>, ren |-> <<"text_renderer">>,
            pre |-> <<>>, sub |-> <<"sub_c">>]

NameCompound == <<"c", "o", "m", "p", "o", "u", "n", "d">>
NameFieldset == <<"f", "i", "e", "l", "d", "s", "e", "t">>
NameForm == <<"f", "o", "r", "m">>
\* the compositions of one blueprint of compound.py
DerivedCompositions == {<<NameCompound>>, <<NameFieldset>>, <<NameForm>>}
\* the compositions of one name the callers ask for besides the chains: a
\* '*'-name that only the registry knows, a plain name that only custom knows
SingleCompositions == {<<NameText>>, <<Star(NameB)>>, <<NameCustom>>}
RegisterNames == {NameB, NameText, Star(NameB)}
ComposeNames == {NameB, Star(NameCustom)}
GlobalInputs == {<<"pp_id">>, <<"pp_mark">>}
\* the custom mapping the callers pass
Custom == [n \in {NameCustom} |-> BlueprintOf(n)]

\* a registration that accepts every name
RegisterAnyName(reg, name, extractors, renderers, preprocessors, subwidgets) ==
    Return([n \in DOMAIN reg \cup {name} |->
              IF n = name
              THEN [ex |-> extractors, ren |-> renderers,
                    pre |-> preprocessors, sub |-> subwidgets]
              ELSE reg[n]])

\* Factory.register: ret is the registry afterwards
Register(reg, name, extractors, renderers, preprocessors, subwidgets) ==
    IF StartsWithStar(name) THEN Raise("ValueError")
    ELSE Return([n \in DOMAIN reg \cup {name} |->
                   IF n = name
                   THEN [ex |-> extractors, ren |-> renderers,
                         pre |-> preprocessors, sub |-> subwidgets]
                   ELSE reg[n]])

\* Factory.extractors, Factory.renderers, Factory.preprocessors
FactoryExtractors(reg, name) == reg[name].ex
FactoryRenderers(reg, name) == reg[name].ren
FactoryPreprocessors(reg, globals, name) == globals \o reg[name].pre

\* the registrations compound.py makes when it is imported, lines 32-35,
\* 47-50 and 65-68
ImportCompound(reg, globals) ==
    LET r1 == Register(reg, NameCompound, <<"compound_extractor">>,
                       <<"compound_renderer">>, <<"compound_preprocessor">>, <<>>).ret
        r2 == Register(r1, NameFieldset, FactoryExtractors(r1, NameCompound),
                       FactoryRenderers(r1, NameCompound) \o <<"fieldset_renderer">>,
                       FactoryPreprocessors(r1, globals, NameCompound), <<>>).ret
    IN  Register(r2, NameForm, FactoryExtractors(r2, NameCompound),
                 FactoryRenderers(r2, NameCompound) \o <<"form_renderer">>,
                 FactoryPreprocessors(r2, globals, NameCompound), <<>>).ret

\* an accumulation that appends the extractors and renderers too
AccumulateAppend(acc, bp) ==
    [ex |-> acc.ex \o bp.ex, ren |-> acc.ren \o bp.ren,
     pre |-> acc.pre \o bp.pre, sub |-> acc.sub \o bp.sub]

\* Factory.__call__, lines 239-242
Accumulate(acc, bp) ==
    [ex |-> bp.ex \o acc.ex, ren |-> bp.ren \o acc.ren,
     pre |-> acc.pre \o bp.pre, sub |-> acc.sub \o bp.sub]

RECURSIVE Resolve(_, _, _, _, _)
\* Factory.__call__, lines 234-242: a missing name raises KeyError
Resolve(reg, custom, parts, i, acc) ==
    IF i > Len(parts) THEN Return(acc)
    ELSE LET reg_name == parts[i]
         IN  IF StartsWithStar(reg_name)
             THEN IF Tail1(reg_name) \in DOMAIN custom
                  THEN Resolve(reg, custom, parts, i + 1,
                               Accumulate(acc, custom[Tail1(reg_name)]))
                  ELSE Raise("KeyError")
             ELSE IF reg_name \in DOMAIN reg
                  THEN Resolve(reg, custom, parts, i + 1, Accumulate(acc, reg[reg_name]))
                  ELSE Raise("KeyError")

\* widget[name] = child (Widget.__setitem__): a child of that name is
\* replaced where it stands, a new one comes last
SetItem(ws, w, name, child) ==
    LET named == {i \in 1..Len(ws[w].children) : ws[ws[w].children[i]].name = name}
        new == [child EXCEPT !.name = IF @ = "" THEN name ELSE @, !.parent = w]
    IN  IF named # {}
        THEN [ws EXCEPT ![ws[w].children[CHOOSE i \in named : TRUE]] = new]
        ELSE [Append(ws, new) EXCEPT ![w].children = Append(@, Len(ws) + 1)]

\* subwidget_func(widget, self): the builders of the model attach one child
\* each, named after the builder
BuilderCall(g, w, i, c) ==
    [ws |-> SetItem(g.ws, w, c,
                    Widget(<<"ex_value">>, <<"value_renderer">>, <<>>, "", PyInt(i), FALSE)),
     log |-> Append(g.log, [k |-> "subwidget", w |-> w, i |-> i, c |-> c])]

RECURSIVE BuilderLoop(_, _, _, _)
\* Factory.__call__, lines 248-249
BuilderLoop(g, w, subwidgets, i) ==
    IF i > Len(subwidgets) THEN g
    ELSE BuilderLoop(BuilderCall(g, w, i, subwidgets[i]), w, subwidgets, i + 1)

\* a composition that puts the global preprocessors after the blueprints'
ComposeGlobalsLast(reg, globals, reg_names, name, value, custom) ==
    LET r == Resolve(reg, custom, Split(reg_names, 1, <<>>), 1,
                     [ex |-> <<>>, ren |-> <<>>, pre |-> <<>>, sub |-> <<>>])
    IN  IF r.exc # "none" THEN Fail([ws |-> <<>>, log |-> <<>>], None, Exception(r.exc))
        ELSE LET widget == Widget(r.ret.ex, r.ret.ren, r.ret.pre \o globals,
                                  name, value, FALSE)
                 g == BuilderLoop(
                        [ws |-> <<widget>>,
                         log |-> <<[k |-> "widget", w |-> Root, i |-> 0, c |-> name]>>],
                        Root, r.ret.sub, 1)
             IN  Ok(g, None, g.ws)

\* Factory.__call__: ret is the tree of the widget built
Compose(reg, globals, reg_names, name, value, custom) ==
    LET r == Resolve(reg, custom, Split(reg_names, 1, <<>>), 1,
                     [ex |-> <<>>, ren |-> <<>>, pre |-> <<>>, sub |-> <<>>])
    IN  IF r.exc # "none" THEN Fail([ws |-> <<>>, log |-> <<>>], None, Exception(r.exc))
        ELSE LET widget == Widget(r.ret.ex, r.ret.ren, globals \o r.ret.pre,
                                  name, value, FALSE)
                 g == BuilderLoop(
                        [ws |-> <<widget>>,
                         log |-> <<[k |-> "widget", w |-> Root, i |-> 0, c |-> name]>>],
                        Root, r.ret.sub, 1)
             IN  Ok(g, None, g.ws)

(***************************************************************************)
(* Spec: a widget tree as constructed, and the caller's operations on it.  *)
(***************************************************************************)
ChildNames == <<"a", "b", "c", "d", "e", "f", "g", "h">>

EmptyRequest == PyDict(<<>>, <<>>)
Requests == {EmptyRequest, PyDict(<<"x">>, <<PyStr("y")>>), PyDict(<<"f1">>, <<PyStr("v")>>)}

LeafExtractors ==
    {"ex_value", "ex_count", "ex_soft", "ex_abort", "ex_fatal", "text_extractor"}

\* renderers, preprocessors and getter of a widget without children
LeafProfiles ==
    {[r |-> <<"text_renderer">>, p |-> <<>>, g |-> PyStr("hello")],
     [r |-> <<"value_renderer", "wrap_renderer">>, p |-> <<"pp_id", "pp_mark">>,
      g |-> CallableGetter(PyInt(3))],
     [r |-> <<>>, p |-> <<"pp_mark">>, g |-> None],
     [r |-> <<"text_renderer", "r_fatal">>, p |-> <<"pp_id">>, g |-> PyInt(0)],
     [r |-> <<"text_renderer">>, p |-> <<"pp_id", "pp_fatal">>, g |-> PyStr("hello")],
     [r |-> <<"text_renderer">>, p |-> <<"pp_error">>, g |-> PyStr("hello")]}

LeafTrees ==
    {<<Widget(ex, pr.r, pr.p, "f1", pr.g, FALSE)>> :
        ex \in SeqsUpTo(LeafExtractors, MaxChain), pr \in LeafProfiles}

\* extractors, renderers, delegation attribute and getter of a compound parent
RootProfiles ==
    {[e |-> <<"compound_extractor">>, r |-> <<"compound_renderer">>,
      del |-> FALSE, g |-> None],
     [e |-> <<"compound_extractor">>, r |-> <<"compound_renderer", "wrap_renderer">>,
      del |-> TRUE, g |-> PyDict(<<"a">>, <<PyInt(7)>>)],
     [e |-> <<"compound_extractor">>, r |-> <<"compound_renderer">>,
      del |-> TRUE, g |-> None],
     [e |-> <<"compound_extractor", "ex_count">>, r |-> <<"compound_renderer">>,
      del |-> FALSE, g |-> None],
     [e |-> <<"ex_count", "compound_extractor">>, r |-> <<"compound_renderer">>,
      del |-> FALSE, g |-> None],
     [e |-> <<"ex_abort", "compound_extractor">>, r |-> <<"compound_renderer">>,
      del |-> FALSE, g |-> None],
     [e |-> <<"ex_abort", "compound_extractor">>, r |-> <<"compound_renderer">>,
      del |-> TRUE, g |-> PyDict(<<"a">>, <<PyInt(7)>>)],
     [e |-> <<"ex_value", "compound_extractor">>, r |-> <<"compound_renderer">>,
      del |-> FALSE, g |-> PyDict(<<"a", "b">>, <<None, None>>)]}

ChildKinds == {"value", "text", "fatal", "nested"}

\* the i-th child of a compound parent; its getter is 2 + i
ChildWidget(kind, i) ==
    LET getter == PyInt(2 + i)
        name == ChildNames[i]
    IN  CASE kind = "value" ->
               Widget(<<"ex_value">>, <<"value_renderer">>, <<>>, name, getter, FALSE)
          [] kind = "text" ->
               Widget(<<"text_extractor">>, <<"text_renderer">>, <<"pp_mark">>,
                      name, getter, FALSE)
          [] kind = "fatal" ->
               Widget(<<"ex_soft", "ex_fatal">>, <<"value_renderer">>, <<>>,
                      name, getter, FALSE)
          [] OTHER ->
               Widget(<<"compound_extractor">>, <<"compound_renderer">>,
                      <<"compound_preprocessor">>, name, getter, FALSE)

\* Widget.__setitem__ of every child: the tree of a parent, its children and
\* one grandchild under each nested child
CompoundTree(root, kinds) ==
    LET n == Len(kinds)
        nested == {i \in 1..n : kinds[i] = "nested"}
        GrandId(i) == 1 + n + Cardinality({j \in nested : j <= i})
        ParentOf(id) == CHOOSE i \in nested : GrandId(i) = id
    IN  [id \in 1..(1 + n + Cardinality(nested)) |->
            IF id = 1 THEN [root EXCEPT !.children = [i \in 1..n |-> i + 1]]
            ELSE IF id <= n + 1
            THEN [ChildWidget(kinds[id - 1], id - 1) EXCEPT
                    !.parent = 1,
                    !.children = IF (id - 1) \in nested THEN <<GrandId(id - 1)>> ELSE <<>>]
            ELSE [Widget(<<"ex_value">>, <<"value_renderer">>, <<>>, "g", PyInt(9), FALSE)
                    EXCEPT !.parent = ParentOf(id) + 1]]

CompoundTrees ==
    {CompoundTree(Widget(pr.e, pr.r, <<"compound_preprocessor">>, "form", pr.g, pr.del),
                  kinds) :
        pr \in RootProfiles, kinds \in SeqsUpTo(ChildKinds, MaxChildren)}


NotRun == [exc |-> "notrun", err |-> None, ret |-> None]
Idle == [name |-> "init", w |-> 0, n |-> 0]
Outcome(r) == [exc |-> r.exc, err |-> r.err, ret |-> r.ret]

\* the trees are built from the callables of compound.py, whose import has
\* registered its blueprints
Init ==
    /\ widgets \in LeafTrees \cup CompoundTrees
    /\ factories = ImportCompound(<<>>, <<>>)
    /\ global_preprocessors = <<>>
    /\ data = None
    /\ log = <<>>
    /\ result = NotRun
    /\ op = Idle

\* the caller runs widget.extract(request)
ExtractOp ==
    /\ Root \in DOMAIN widgets
    /\ \E request \in Requests :
        LET r == Extract([ws |-> widgets, log |-> <<>>], Root, request)
        IN  /\ widgets' = r.g.ws
            /\ log' = r.g.log
            /\ data' = r.d
            /\ result' = Outcome(r)
            /\ op' = [name |-> "extract", w |-> Root, n |-> 0]
            /\ UNCHANGED <<factories, global_preprocessors>>

\* the caller runs widget(request): no data is passed
CallOp ==
    /\ Root \in DOMAIN widgets
    /\ \E request \in Requests :
        LET r == WidgetCall([ws |-> widgets, log |-> <<>>], Root, request, None)
        IN  /\ widgets' = r.g.ws
            /\ log' = r.g.log
            /\ data' = r.d
            /\ result' = Outcome(r)
            /\ op' = [name |-> "call", w |-> Root, n |-> 0]
            /\ UNCHANGED <<factories, global_preprocessors>>

\* the caller runs widget(request, data) with the record extract returned
CallWithDataOp ==
    /\ op.name \in {"extract", "call_data"}
    /\ op.name = "extract" => result.exc = "none"
    /\ op.n < MaxCalls
    /\ \E request \in Requests :
        LET r == WidgetCall([ws |-> widgets, log |-> log], op.w, request, data)
        IN  /\ widgets' = r.g.ws
            /\ log' = r.g.log
            /\ data' = r.d
            /\ result' = Outcome(r)
            /\ op' = [name |-> "call_data", w |-> op.w, n |-> op.n + 1]
            /\ UNCHANGED <<factories, global_preprocessors>>

Next == ExtractOp \/ CallOp \/ CallWithDataOp

Spec == Init /\ [][Next]_vars

(***************************************************************************)
(* FactorySpec: a factory as constructed, the registrations, the           *)
(* composition of a widget and the caller's operations on it.              *)
(***************************************************************************)
FactoryInit ==
    /\ widgets = <<>>
    /\ factories = <<>>
    /\ global_preprocessors = <<>>
    /\ data = None
    /\ log = <<>>
    /\ result = NotRun
    /\ op = Idle

\* Factory.register
RegisterOp ==
    \E name \in RegisterNames :
        /\ LET bp == BlueprintOf(name)
               r == Register(factories, name, bp.ex, bp.ren, bp.pre, bp.sub)
           IN  /\ factories' = IF r.exc = "none" THEN r.ret ELSE factories
               /\ result' = [exc |-> r.exc,
                             err |-> IF r.exc = "none" THEN None ELSE Exception(r.exc),
                             ret |-> None]
        /\ op' = [name |-> "register", arg |-> name]
        /\ data' = None
        /\ log' = <<>>
        /\ UNCHANGED <<widgets, global_preprocessors>>

\* Factory.register_global_preprocessors
RegisterGlobalOp ==
    \E preprocessors \in GlobalInputs :
        /\ Len(global_preprocessors) + Len(preprocessors) <= MaxGlobals
        /\ global_preprocessors' = global_preprocessors \o preprocessors
        /\ result' = [exc |-> "none", err |-> None, ret |-> None]
        /\ op' = [name |-> "register_global", arg |-> preprocessors]
        /\ data' = None
        /\ log' = <<>>
        /\ UNCHANGED <<widgets, factories>>

\* import yafowil.compound: a module is executed once
ImportCompoundOp ==
    /\ NameCompound \notin DOMAIN factories
    /\ factories' = ImportCompound(factories, global_preprocessors)
    /\ result' = [exc |-> "none", err |-> None, ret |-> None]
    /\ op' = [name |-> "import", arg |-> NameCompound]
    /\ data' = None
    /\ log' = <<>>
    /\ UNCHANGED <<widgets, global_preprocessors>>

\* factory(reg_names, name="f1", value="hello", custom=...)
ComposeNamed(names) ==
    /\ LET r == Compose(factories, global_preprocessors, Join(names, 1),
                        "f1", PyStr("hello"), Custom)
       IN  /\ widgets' = IF r.exc = "none" THEN r.ret ELSE widgets
           /\ log' = r.g.log
           /\ result' = [exc |-> r.exc, err |-> r.err, ret |-> None]
    /\ op' = [name |-> "compose", arg |-> names]
    /\ data' = None
    /\ UNCHANGED <<factories, global_preprocessors>>

\* the caller composes a chain of the blueprints registered by hand
ComposeOp ==
    \E names \in SeqsUpTo(ComposeNames, MaxNames) \cup SingleCompositions :
        Len(names) > 0 /\ ComposeNamed(names)

\* the caller composes one of the blueprints of compound.py
ComposeDerivedOp == \E names \in DerivedCompositions : ComposeNamed(names)

FactoryNext == RegisterOp \/ RegisterGlobalOp \/ ComposeOp \/ CallOp

FactorySpec == FactoryInit /\ [][FactoryNext]_vars

\* the factory and the blueprints compound.py derives from "compound"
DerivedNext ==
    RegisterOp \/ RegisterGlobalOp \/ ImportCompoundOp \/ ComposeDerivedOp \/ CallOp

DerivedSpec == FactoryInit /\ [][DerivedNext]_vars

(***************************************************************************)
(* Claims about Widget.extract and Widget.__call__ (Spec).                 *)
(***************************************************************************)
\* the events of kind k of widget w, in invocation order
EventsOf(k, w) == SelectSeq(log, LAMBDA e : e.k = k /\ e.w = w)
\* the chain positions invoked, in invocation order
Positions(k, w) == [j \in 1..Len(EventsOf(k, w)) |-> EventsOf(k, w)[j].i]
Iota(n) == [j \in 1..n |-> j]
Invoked(k, w, i) == \E j \in 1..Len(log) : log[j].k = k /\ log[j].w = w /\ log[j].i = i
\* the k-th smallest element of a set of numbers
Nth(S, k) == CHOOSE x \in S : Cardinality({y \in S : y < x}) = k - 1

RootChain == widgets[Root].extractors
\* what the supplied extractors do, read off their definitions
AbortsAt(i) ==
    \/ RootChain[i] = "ex_abort"
    \/ RootChain[i] = "text_extractor" /\ HasKey(data.request, "x")
SoftAt(i) == RootChain[i] = "ex_soft"
RaisesAt(i) == AbortsAt(i) \/ SoftAt(i)
FatalAt(i) == RootChain[i] = "ex_fatal"
ErrorAt(i) ==
    CASE RootChain[i] = "ex_abort" -> ExtractionError("abort", TRUE)
      [] RootChain[i] = "ex_soft" -> ExtractionError("soft", FALSE)
      [] OTHER -> ExtractionError("invalid", TRUE)
ExtractRan == op.name = "extract"

OnlySoftErrors ==
    /\ ExtractRan
    /\ result.exc = "none"
    /\ \A i \in 1..Len(RootChain) : ~AbortsAt(i) /\ ~FatalAt(i)

RecordReused == op.name = "call_data"

\* C3: for extract(request) followed by any number of invocations that pass
\* the returned record as data, the getter and every preprocessor of the
\* widget are invoked exactly once for that record.
C3_PreprocessOnce ==
    ((ExtractRan /\ result.exc = "none") \/ RecordReused) =>
        /\ Len(EventsOf("getter", Root)) = 1
        /\ Positions("preprocessor", Root) = Iota(Len(widgets[Root].preprocessors))
        /\ "request" \in data.keys /\ "value" \in data.keys

\* C3 witness: the record was passed back twice to a widget with two
\* preprocessors and a non-empty request
C3_Witness ==
    /\ RecordReused
    /\ op.n = 2
    /\ Len(widgets[Root].preprocessors) = 2
    /\ Truthy(data.request)
    /\ result.exc = "none"

\* the events of the widget's own getter, preprocessors and extractors
OwnPipelineEvents(w) ==
    SelectSeq(log, LAMBDA e : e.w = w /\ e.k \in {"getter", "preprocessor", "extractor", "extract"})
\* the position in the log of the first event of kind k of widget w (0: none)
FirstIndex(k, w) ==
    IF \E j \in 1..Len(log) : log[j].k = k /\ log[j].w = w
    THEN CHOOSE j \in 1..Len(log) :
            /\ log[j].k = k /\ log[j].w = w
            /\ \A h \in 1..(j - 1) : ~(log[h].k = k /\ log[h].w = w)
    ELSE 0

RECURSIVE Unrendered(_)
\* a value with the rendered entries of every record in it cleared: what the
\* value was before rendering appended to the records it holds
Unrendered(x) ==
    CASE x.t = "rd" -> [x EXCEPT !.rendered = <<>>,
                                 !.extracted = [j \in 1..Len(@) |-> Unrendered(@[j])]]
      [] x.t \in {"list", "dict"} -> [x EXCEPT !.v = [j \in 1..Len(@) |-> Unrendered(@[j])]]
      [] OTHER -> x

\* C4: an invocation with no data and no request creates a record and runs
\* preprocessing only, invoking no extractor; with no data and a request it
\* runs the full extract(request) first; with data it uses the record as it
\* is, invoking neither the getter, nor a preprocessor, nor an extractor.
C4_Dispatch ==
    /\ (op.name = "call" /\ ~Truthy(data.request)) =>
          /\ log[1] = [k |-> "call", w |-> Root, i |-> 0, c |-> "preprocess"]
          /\ \A j \in 1..Len(log) : log[j].k \notin {"extractor", "extract"}
          /\ Len(EventsOf("getter", Root)) = 1
          /\ data.extracted = <<>> /\ data.errors = <<>>
          /\ result.exc = "none" =>
                Positions("preprocessor", Root) = Iota(Len(widgets[Root].preprocessors))
    /\ (op.name = "call" /\ Truthy(data.request)) =>
          LET e == Extract([ws |-> widgets, log |-> <<>>], Root, data.request)
          IN  /\ log[1] = [k |-> "call", w |-> Root, i |-> 0, c |-> "extract"]
              /\ SubSeq(log, 2, 1 + Len(e.g.log)) = e.g.log
              /\ e.exc # "none" => (result = Outcome(e) /\ Len(log) = 1 + Len(e.g.log))
              /\ e.exc = "none" =>
                    /\ Unrendered(data) = e.d
                    /\ \A j \in (2 + Len(e.g.log))..Len(log) :
                          log[j].w = Root => log[j].k = "renderer"
    /\ RecordReused =>
          /\ \E j \in 1..Len(log) : log[j] = [k |-> "call", w |-> Root, i |-> 0, c |-> "given"]
          /\ \A j \in 1..Len(log) :
                (log[j].w = Root /\ log[j].k \in {"getter", "preprocessor", "extractor", "extract"})
                    => j < FirstIndex("call", Root)

\* C4 witness: the three branches met on widgets with preprocessors and
\* extractors: here the record passed back
C4_Witness ==
    /\ RecordReused
    /\ Len(widgets[Root].preprocessors) > 0
    /\ Len(RootChain) = 3
    /\ Len(widgets[Root].renderers) > 0
    /\ result.exc = "none"

\* C4 witness of the first branch: nothing extracted although extractors exist
C4_WitnessNoRequest ==
    /\ op.name = "call"
    /\ ~Truthy(data.request)
    /\ Len(RootChain) = 3
    /\ result.exc = "none"

Called == op.name = "call" /\ IsRuntimeData(data)
CalledWithRequest == Called /\ Truthy(data.request)
\* the root's extraction returned: it raised nothing but ExtractionErrors
ExtractionEnded ==
    \E j \in 1..Len(log) : log[j] = [k |-> "extract", w |-> Root, i |-> 0, c |-> "end"]
RootRenderers == widgets[Root].renderers
\* the supplied renderers that raise nothing, read off their definitions
PlainRenderers == {"text_renderer", "value_renderer", "wrap_renderer"}
\* what the plain renderer at position i returns for the record
PlainResult(i) ==
    CASE RootRenderers[i] = "text_renderer" -> PyStr(StrOf(last_extracted(data)))
      [] RootRenderers[i] = "value_renderer" -> PyStr(StrOf(data.value))
      [] OTHER -> PyStr("<" \o (IF i = 1 THEN "" ELSE data.rendered[i - 1].v) \o ">")

\* C11: in an invocation with a request whose extraction raised nothing but
\* ExtractionErrors, the errors are on the record's errors and rendering goes
\* on: the renderers are invoked in chain order, each once, with the widget
\* and the record; when none of them raises, every renderer is invoked, each
\* result is appended to rendered and the invocation returns last_rendered.
C11_ErrorsNeverInterruptRendering ==
    (CalledWithRequest /\ ExtractionEnded) =>
        /\ data.errors = Extract([ws |-> widgets, log |-> <<>>], Root, data.request).d.errors
        /\ \E n \in 0..Len(RootRenderers) : Positions("renderer", Root) = Iota(n)
        /\ Len(RootRenderers) > 0 => Invoked("renderer", Root, 1)
        /\ (\A i \in 1..Len(RootRenderers) : RootRenderers[i] \in PlainRenderers) =>
              result.exc = "none"
        /\ result.exc = "none" =>
              /\ Positions("renderer", Root) = Iota(Len(RootRenderers))
              /\ Len(data.rendered) = Len(RootRenderers)
              /\ \A i \in 1..Len(RootRenderers) :
                    RootRenderers[i] \in PlainRenderers => data.rendered[i] = PlainResult(i)
              /\ result.ret = IF data.rendered = <<>> THEN PyStr("")
                              ELSE data.rendered[Len(data.rendered)]

\* C11 witness: an aborting and a non-aborting error were recorded and both
\* renderers of the chain ran
C11_Witness ==
    /\ CalledWithRequest
    /\ Len(data.errors) = 2
    /\ data.errors[2].abort
    /\ Len(RootRenderers) = 2
    /\ Len(data.rendered) = 2
    /\ result.exc = "none"

\* the events of kind k of widget w in a log l
EventsIn(l, k, w) == SelectSeq(l, LAMBDA e : e.k = k /\ e.w = w)
\* the events of the callables of widget w in a log l
CallablesIn(l, w) ==
    SelectSeq(l, LAMBDA e : e.w = w /\ e.k \in {"preprocessor", "extractor", "renderer"})
\* the supplied extractor c raises an ExtractionError for the request
Raises(c, request) ==
    \/ c \in {"ex_abort", "ex_soft"}
    \/ c = "text_extractor" /\ HasKey(request, "x")
IsSuffix(s, t) == Len(s) <= Len(t) /\ SubSeq(t, Len(t) - Len(s) + 1, Len(t)) = s
\* s is what t holds after its first n entries
StartsAt(t, n, s) == Len(t) >= n + Len(s) /\ SubSeq(t, n + 1, n + Len(s)) = s
\* widget w lies below widget a in the tree ws
RECURSIVE Under(_, _, _)
Under(ws, a, w) ==
    /\ ws[w].parent # 0
    /\ (ws[w].parent = a \/ Under(ws, a, ws[w].parent))
\* the arguments an exception is created with
OwnArgs(e) == IF e.t = "ExtractionError" THEN 1 ELSE 0

\* what C12 says of an operation on the root that ended in exception res.err:
\* before is the record the operation started from, l the events of the
\* operation, ws the tree and d the record when the exception left
FatalOutcome(before, l, ws, d, res) ==
    LET mine == CallablesIn(l, Root)
        failed == mine[Len(mine)]
        raised == SelectSeq(EventsIn(l, "extractor", Root),
                            LAMBDA e : Raises(e.c, d.request))
    IN  /\ res.err.t = res.exc
        /\ \E j \in 1..Len(l) :
              /\ l[j].k \in {"preprocessor", "extractor", "renderer"}
              /\ StartsAt(res.err.args, OwnArgs(res.err),
                          <<l[j].c>> \o Path(ws, l[j].w))
              /\ \A m \in (j + 1)..Len(l) : Under(ws, l[j].w, l[m].w)
        /\ Len(mine) > 0
        /\ IsSuffix(<<failed.c>> \o Path(ws, Root), res.err.args)
        /\ \A i \in 1..Len(d.errors) :
              /\ d.errors[i].t = "ExtractionError"
              /\ d.errors[i].args = <<d.errors[i].msg>>
              /\ d.errors[i] # res.err
        /\ Len(d.errors) = Len(before.errors) + Len(raised)
        /\ Len(d.extracted) =
              Len(before.extracted) + Len(EventsIn(l, "extractor", Root)) - Len(raised)
              - (IF failed.k = "extractor" THEN 1 ELSE 0)
        /\ Len(d.rendered) =
              Len(before.rendered) + Len(EventsIn(l, "renderer", Root))
              - (IF failed.k = "renderer" THEN 1 ELSE 0)
        /\ Unrendered(PyList(SubSeq(d.extracted, 1, Len(before.extracted)))) =
              Unrendered(PyList(before.extracted))
        /\ SubSeq(d.rendered, 1, Len(before.rendered)) = before.rendered
        /\ failed.k = "preprocessor" => (d.extracted = <<>> /\ d.rendered = <<>>)

FatalStep == op'.name \in {"extract", "call", "call_data"} /\ result'.exc # "none"

C12_WitnessRenderer ==
    /\ op.name = "call_data"
    /\ result.exc = "Exception"
    /\ Len(data.rendered) = 1
    /\ log[Len(log)].k = "renderer"

\* C12 witness: a preprocessor raised an ExtractionError
C12_WitnessPreprocessor ==
    /\ op.name = "call"
    /\ result.exc = "ExtractionError"
    /\ log[Len(log)].k = "preprocessor"

(***************************************************************************)
(* Claims about the compound protocol (Spec).                              *)
(***************************************************************************)
Children == widgets[Root].children
ChildName(i) == widgets[Children[i]].name
IsCompound == \E i \in 1..Len(RootChain) : RootChain[i] = "compound_extractor"
CompoundPos == CHOOSE i \in 1..Len(RootChain) : RootChain[i] = "compound_extractor"
\* the entry of extracted that compound_extractor's value went to
Mapping == data.extracted[Cardinality({j \in 1..CompoundPos : ~RaisesAt(j)})]

RECURSIVE Descendants(_)
\* a widget and everything under it
Descendants(w) ==
    {w} \cup UNION {Descendants(widgets[w].children[i]) : i \in 1..Len(widgets[w].children)}

\* the position in the log of widget w's extract event c ("begin" or "end")
ExtractIndex(w, c) ==
    CHOOSE j \in 1..Len(log) : log[j] = [k |-> "extract", w |-> w, i |-> 0, c |-> c]

\* C7: compound_extractor returns a mapping whose keys are exactly the
\* children's names and whose value for a child equals the record that
\* child.extract(request) returns for the same request; the children are
\* extracted in iteration order, each extraction completing before the next
\* child's begins.
C7_CompoundExtractor ==
    (ExtractRan /\ IsCompound /\ result.exc = "none"
        /\ Invoked("extractor", Root, CompoundPos)) =>
        /\ Mapping.t = "dict"
        /\ Mapping.k = [i \in 1..Len(Children) |-> ChildName(i)]
        /\ \A i \in 1..Len(Children) :
              LET direct == Extract([ws |-> widgets, log |-> <<>>], Children[i], data.request)
              IN  /\ direct.exc = "none"
                  /\ Mapping.v[i] = direct.ret
        /\ \A i \in 1..Len(Children) :
              /\ Len(EventsOf("extract", Children[i])) = 2
              /\ ExtractIndex(Children[i], "begin") < ExtractIndex(Children[i], "end")
              /\ \A j \in 1..Len(log) :
                    (log[j].w \in Descendants(Children[i])) <=>
                        /\ ExtractIndex(Children[i], "begin") <= j
                        /\ j <= ExtractIndex(Children[i], "end")
              /\ i < Len(Children) =>
                    ExtractIndex(Children[i], "end") < ExtractIndex(Children[i + 1], "begin")

\* C7 witness: two children, one of them a compound with a child of its own,
\* extracted with a non-empty request
C7_Witness ==
    /\ ExtractRan /\ IsCompound /\ result.exc = "none"
    /\ Invoked("extractor", Root, CompoundPos)
    /\ Len(Children) = 2
    /\ Len(widgets[Children[1]].children) = 1
    /\ Truthy(data.request)
    /\ Len(Mapping.v) = 2

RECURSIVE Concat(_, _)
\* the strings of a sequence of str values, joined
Concat(s, i) == IF i > Len(s) THEN "" ELSE s[i].v \o Concat(s, i + 1)

Rendered == op.name \in {"call", "call_data"} /\ result.exc = "none"
RendersCompound ==
    /\ Len(widgets[Root].renderers) > 0
    /\ widgets[Root].renderers[1] = "compound_renderer"
\* what compound_renderer returned in the last invocation
CompoundOutput ==
    data.rendered[Len(data.rendered) - Len(widgets[Root].renderers) + 1]
\* a child's record as it was before the last invocation rendered into it
BeforeRender(sub, child) ==
    [sub EXCEPT !.rendered = SubSeq(@, 1, Len(@) - Len(widgets[child].renderers))]
\* the children's "call" events, in invocation order
ChildCalls == SelectSeq(log, LAMBDA e : e.k = "call" /\ widgets[e.w].parent = Root)

\* C8: compound_renderer returns the concatenation, in iteration order, of
\* the children's render outputs, each child rendered with the parent's
\* request and, when the parent's extracted is non-empty, with the record
\* under the child's name in the FIRST entry of extracted (with no data
\* otherwise); children a (getter 3) and b (getter 4) rendering their value,
\* invoked with no request, render "34".
C8_CompoundRenderer ==
    /\ (Rendered /\ RendersCompound /\ Len(Children) = 0) => CompoundOutput = PyStr("")
    /\ (Rendered /\ RendersCompound /\ Len(data.extracted) > 0 /\ Len(Children) > 0) =>
          /\ data.extracted[1].t = "dict"
          /\ \A i \in 1..Len(Children) : HasKey(data.extracted[1], ChildName(i))
          /\ LET Sub(i) == Lookup(data.extracted[1], ChildName(i))
                 Given(i) == IF IsRuntimeData(Sub(i)) THEN BeforeRender(Sub(i), Children[i])
                             ELSE Sub(i)
                 outs == [i \in 1..Len(Children) |->
                            WidgetCall([ws |-> widgets, log |-> <<>>], Children[i],
                                       data.request, Given(i))]
             IN  /\ \A i \in 1..Len(Children) :
                       /\ outs[i].exc = "none"
                       /\ IsRuntimeData(Sub(i)) => last_rendered(Sub(i)) = outs[i].ret
                 /\ CompoundOutput = PyStr(Concat([i \in 1..Len(Children) |-> outs[i].ret], 1))
                 /\ op.name = "call" =>
                       ChildCalls = [i \in 1..Len(Children) |->
                                       [k |-> "call", w |-> Children[i], i |-> 0,
                                        c |-> Dispatch(data.request, Sub(i))]]
    /\ (Rendered /\ RendersCompound /\ Len(data.extracted) = 0) =>
          LET outs == [i \in 1..Len(Children) |->
                         WidgetCall([ws |-> widgets, log |-> <<>>], Children[i],
                                    data.request, None)]
          IN  /\ \A i \in 1..Len(Children) : outs[i].exc = "none"
              /\ CompoundOutput = PyStr(Concat([i \in 1..Len(Children) |-> outs[i].ret], 1))
              /\ op.name = "call" =>
                    ChildCalls = [i \in 1..Len(Children) |->
                                    [k |-> "call", w |-> Children[i], i |-> 0,
                                     c |-> Dispatch(data.request, None)]]
    /\ (op.name = "call" /\ RendersCompound /\ ~widgets[Root].delegation
          /\ RootChain \in {<<"compound_extractor">>, <<"compound_extractor", "ex_count">>}
          /\ \A i \in 1..Len(Children) :
                /\ widgets[Children[i]].extractors = <<"ex_value">>
                /\ widgets[Children[i]].renderers = <<"value_renderer">>) =>
          /\ result.exc = "none"
          /\ (Len(Children) = 2 /\ Len(widgets[Root].renderers) = 1) =>
                result.ret = PyStr("34")

\* C8 witness: children a (getter 3) and b (getter 4) rendered "34" with no
\* request
C8_Witness ==
    /\ op.name = "call"
    /\ ~Truthy(data.request)
    /\ Len(Children) = 2
    /\ widgets[Children[1]].getter = PyInt(3)
    /\ widgets[Children[2]].getter = PyInt(4)
    /\ result = [exc |-> "none", err |-> None, ret |-> PyStr("34")]

\* C8 witness: the parent ran two extractors and the children were rendered
\* with the records of the first entry
C8_WitnessFirstEntry ==
    /\ Rendered /\ RendersCompound
    /\ Len(data.extracted) = 2
    /\ Len(Children) = 2
    /\ Len(ChildCalls) >= 2

\* the events of the operation a step performs
NewEvents ==
    IF op'.name = "call_data" THEN SubSeq(log', Len(log) + 1, Len(log')) ELSE log'
\* the position in l of the root's compound_preprocessor event (0: none)
DelegationIndex(l) ==
    IF \E j \in 1..Len(l) :
          l[j].k = "preprocessor" /\ l[j].w = Root /\ l[j].c = "compound_preprocessor"
    THEN CHOOSE j \in 1..Len(l) :
            l[j].k = "preprocessor" /\ l[j].w = Root /\ l[j].c = "compound_preprocessor"
    ELSE 0
\* the value the preprocessors of a child of the model leave in its record
\* for the resolved value v
ChildValue(ws, child, v) == IF ws[child].preprocessors = <<"pp_mark">> THEN PyList(<<v>>) ELSE v
\* what C13 says of an operation in which the root's compound_preprocessor
\* ran: before and ws are the tree before and after, l the operation's
\* events, d the root's record and res the outcome
Delegated(before, ws, l, d, res) ==
    LET kids == ws[Root].children
        at == DelegationIndex(l)
        Expected(i) == GetOrNone(d.value, ws[kids[i]].name)
    IN  IF ws[Root].delegation
        THEN IF IsDict(d.value)
             THEN /\ \A i \in 1..Len(kids) : ws[kids[i]].getter = Expected(i)
                  /\ \A j \in 1..Len(l) : l[j].w # Root => j > at
                  /\ \A j \in 1..Len(l) :
                        (l[j].w = Root /\ l[j].k \in {"extractor", "renderer"}) => j > at
                  /\ (res.exc = "none" /\ Len(d.extracted) > 0 /\ d.extracted[1].t = "dict") =>
                        \A i \in 1..Len(kids) :
                            d.extracted[1].v[i].value = ChildValue(ws, kids[i], Expected(i))
                  /\ (res.exc = "none" /\ d.extracted = <<>> /\ Len(d.rendered) > 0
                        /\ \A i \in 1..Len(kids) :
                              ws[kids[i]].renderers = <<"value_renderer">>) =>
                        d.rendered[1] =
                            PyStr(Concat([i \in 1..Len(kids) |-> PyStr(StrOf(Expected(i)))], 1))
             ELSE Len(kids) > 0 =>
                     /\ res.exc = "AttributeError"
                     /\ Len(l) = at
                     /\ ws = before
        ELSE /\ ws = before
             /\ ~(res.exc # "none" /\ Len(l) = at)
             /\ d.value = before[Root].getter
             /\ "value" \in d.keys /\ "request" \in d.keys

\* C13: when the widget's delegation attribute is set, compound_preprocessor
\* sets every child's getter to value.get(childname, None) of the parent's
\* resolved value before any child is extracted or rendered in the same
\* operation, so each child's record starts from that value; when the
\* attribute is not set, no getter changes and the record is returned as it
\* came.
C13_Delegation ==
    [][(op'.name \in {"extract", "call"} /\ DelegationIndex(NewEvents) > 0) =>
          Delegated(widgets, widgets', NewEvents, data', result')]_vars

\* C13 witness: a delegating parent with value {"a": 7} and children "a" and
\* "b" was invoked with no request and rendered "7None"
C13_Witness ==
    /\ op.name = "call"
    /\ widgets[Root].delegation
    /\ Len(widgets[Root].children) = 2
    /\ widgets[widgets[Root].children[1]].getter = PyInt(7)
    /\ widgets[widgets[Root].children[2]].getter = None
    /\ result.exc = "none"
    /\ data.rendered[1] = PyStr("7None")

\* C13 witness: the parent does not delegate and the children keep getters
C13_WitnessOff ==
    /\ op.name = "extract"
    /\ ~widgets[Root].delegation
    /\ Len(widgets[Root].children) = 2
    /\ widgets[widgets[Root].children[1]].getter = PyInt(3)
    /\ result.exc = "none"

RECURSIVE RecordsIn(_)
\* the records held in a value: the value itself when it is a record, and
\* the records in a record's extracted entries and in the entries of lists
\* and mappings
RecordsIn(x) ==
    CASE x.t = "rd" -> {x} \cup UNION {RecordsIn(x.extracted[j]) : j \in 1..Len(x.extracted)}
      [] x.t \in {"list", "dict"} -> UNION {RecordsIn(x.v[j]) : j \in 1..Len(x.v)}
      [] OTHER -> {}

\* C17: for every record an operation leaves, of the widget or of a
\* descendant, last_rendered is the last entry of rendered, or the empty
\* string when rendered is empty, and last_extracted is the last entry of
\* extracted, or UNSET when extracted is empty.
C17_LastAccessors ==
    \A r \in RecordsIn(data) :
        /\ last_rendered(r) =
              IF r.rendered = <<>> THEN PyStr("") ELSE r.rendered[Len(r.rendered)]
        /\ last_extracted(r) =
              IF r.extracted = <<>> THEN UNSET ELSE r.extracted[Len(r.extracted)]

\* C17 witness: a record with two different rendered entries and nothing
\* extracted, and a record with two different extracted entries
C17_Witness ==
    /\ \E r \in RecordsIn(data) :
          /\ Len(r.rendered) = 2 /\ r.rendered[1] # r.rendered[2]
          /\ r.extracted = <<>>
          /\ last_extracted(r) = UNSET

C17_WitnessEmptyRendered ==
    /\ \E r \in RecordsIn(data) :
          /\ Len(r.extracted) = 2 /\ r.extracted[1] # r.extracted[2]
          /\ r.rendered = <<>>
          /\ last_rendered(r) = PyStr("")

\* how often widget w's extract was entered in the last operation
ExtractRuns(w) ==
    Len(SelectSeq(log, LAMBDA e : e.k = "extract" /\ e.w = w /\ e.c = "begin"))

\* C18: in an invocation with a request and no data of a widget whose chain
\* holds compound_extractor, completed without a fatal error, the extract of
\* every descendant is entered exactly once, whether the children were
\* rendered with their sub-records or extracted while being rendered.
C18_NoDoubleExtraction ==
    (CalledWithRequest /\ IsCompound /\ result.exc = "none") =>
        \A w \in Descendants(Root) \ {Root} : ExtractRuns(w) = 1

\* widget w's compound_preprocessor ran in the events l
Delegating(ws, l, w) ==
    /\ ws[w].delegation
    /\ \E j \in 1..Len(l) :
          l[j].k = "preprocessor" /\ l[j].w = w /\ l[j].c = "compound_preprocessor"
\* the value a widget's getter resolves to
Resolved(getter) == IF getter.t = "callable" THEN getter.ret ELSE getter

\* C19: an extract or an invocation changes no widget's extractors,
\* renderers, preprocessors, children, name, parent or delegation attribute,
\* nor the factory's registry and global preprocessors; the one field it may
\* write is the getter of a child whose parent's delegation attribute is set
\* and whose parent was preprocessed in that operation, and the value
\* written stays on the child in later operations.
C19_ExecutionWritesOnlyGetters ==
    [][/\ DOMAIN widgets' = DOMAIN widgets
       /\ \A w \in DOMAIN widgets :
             /\ [widgets'[w] EXCEPT !.getter = widgets[w].getter] = widgets[w]
             /\ widgets'[w].getter # widgets[w].getter =>
                   /\ widgets[w].parent # 0
                   /\ Delegating(widgets, NewEvents, widgets[w].parent)
                   /\ widgets'[w].getter =
                         GetOrNone(Resolved(widgets[widgets[w].parent].getter),
                                   widgets[w].name)
       /\ op'.name = "call_data" => widgets' = widgets
       /\ (\A w \in DOMAIN widgets :
              (widgets[w].parent # 0 /\ widgets[widgets[w].parent].delegation) =>
                  widgets[w].getter =
                      GetOrNone(Resolved(widgets[widgets[w].parent].getter),
                                widgets[w].name))
             => widgets' = widgets
       /\ factories' = factories
       /\ global_preprocessors' = global_preprocessors]_vars

\* C19 witness: the getters a delegating parent wrote ({"a": 7}: 7 for "a",
\* None for "b") are still on the children after the record was passed back
\* twice
C19_Witness ==
    /\ op.name = "call_data"
    /\ op.n = 2
    /\ widgets[Root].delegation
    /\ Len(widgets[Root].children) = 2
    /\ widgets[widgets[Root].children[1]].getter = PyInt(7)
    /\ widgets[widgets[Root].children[2]].getter = None
    /\ NameCompound \in DOMAIN factories
    /\ result.exc = "none"

(***************************************************************************)
(* Claims about Factory (FactorySpec).                                     *)
(***************************************************************************)
\* the widget the factory builds from the one name 'text' when no global
\* preprocessor is registered
TextWidget ==
    <<Widget(<<"text_extractor">>, <<"text_renderer">>, <<>>, "f1", PyStr("hello"), FALSE)>>
InvokedText == op.name = "call" /\ widgets = TextWidget /\ IsRuntimeData(data)

\* C5 as stated: composing 'text' with value "hello" and invoking it with an
\* empty request renders "hello".
C5_AsStated ==
    (InvokedText /\ data.request = EmptyRequest) =>
        (result.exc = "none" /\ result.ret = PyStr("hello"))

\* C5: composing 'text' with value "hello" and invoking it with an empty
\* request runs no extractor and renders the empty string; invoking it with
\* a non-empty request that has no "x" renders "hello".
C5_TextRendering ==
    InvokedText =>
        /\ data.request = EmptyRequest =>
              /\ result.exc = "none"
              /\ result.ret = PyStr("")
              /\ data.extracted = <<>>
              /\ \A j \in 1..Len(log) : log[j].k # "extractor"
        /\ (Truthy(data.request) /\ ~HasKey(data.request, "x")) =>
              /\ result.exc = "none"
              /\ result.ret = PyStr("hello")
              /\ data.extracted = <<PyStr("hello")>>

C5_Witness ==
    /\ InvokedText
    /\ data.request = EmptyRequest
    /\ result.ret = PyStr("")

C5_WitnessRequest ==
    /\ InvokedText
    /\ Truthy(data.request)
    /\ result.ret = PyStr("hello")

Composed == op.name = "compose" /\ result.exc = "none"
\* the blueprint a name of the composition stands for
BlueprintAt(i) ==
    LET n == op.arg[i]
    IN  IF StartsWithStar(n) THEN Custom[Tail1(n)] ELSE factories[n]
Reverse(s) == [i \in 1..Len(s) |-> s[Len(s) + 1 - i]]
RECURSIVE Flat(_, _)
Flat(s, i) == IF i > Len(s) THEN <<>> ELSE s[i] \o Flat(s, i + 1)
Builders == Flat([i \in 1..Len(op.arg) |-> BlueprintAt(i).sub], 1)

\* C6: a widget composed from the names n1:...:nk has the extractors of nk
\* first and those of n1 last, and its renderers likewise; its preprocessors
\* are the global ones, then those of n1, ..., then those of nk; the
\* subwidget builders of n1, ..., nk are each invoked once, in that order,
\* after the widget is constructed.
C6_CompositionOrder ==
    Composed =>
        /\ widgets[Root].extractors =
              Flat(Reverse([i \in 1..Len(op.arg) |-> BlueprintAt(i).ex]), 1)
        /\ widgets[Root].renderers =
              Flat(Reverse([i \in 1..Len(op.arg) |-> BlueprintAt(i).ren]), 1)
        /\ widgets[Root].preprocessors =
              global_preprocessors \o
              Flat([i \in 1..Len(op.arg) |-> BlueprintAt(i).pre], 1)
        /\ log = <<[k |-> "widget", w |-> Root, i |-> 0, c |-> "f1"]>> \o
                 [j \in 1..Len(Builders) |->
                    [k |-> "subwidget", w |-> Root, i |-> j, c |-> Builders[j]]]

C6_Witness ==
    /\ Composed
    /\ op.arg = <<NameB, Star(NameCustom)>>
    /\ global_preprocessors # <<>>
    /\ widgets[Root].extractors = <<"ex_abort", "ex_count", "ex_soft">>
    /\ Len(log) = 3

\* C14: register_global_preprocessors appends to the global preprocessors
\* and touches no widget; a widget composed afterwards has all global
\* preprocessors registered so far, in registration order, followed by its
\* blueprints' own preprocessors, and the chain of a widget composed earlier
\* is not changed by a later registration.
C14_GlobalsAffectFutureOnly ==
    [][/\ op'.name = "register_global" =>
            /\ global_preprocessors' = global_preprocessors \o op'.arg
            /\ widgets' = widgets
            /\ factories' = factories
       /\ op'.name # "register_global" => global_preprocessors' = global_preprocessors
       /\ (op'.name = "compose" /\ result'.exc = "none") =>
            widgets'[Root].preprocessors =
                global_preprocessors \o
                Flat([i \in 1..Len(op'.arg) |->
                        IF StartsWithStar(op'.arg[i]) THEN Custom[Tail1(op'.arg[i])].pre
                        ELSE factories[op'.arg[i]].pre], 1)]_vars

\* C14 witness: a widget composed from "b" after one registration keeps its
\* chain when a second global preprocessor is registered
C14_Witness ==
    /\ op.name = "register_global"
    /\ global_preprocessors = <<"pp_id", "pp_mark">>
    /\ Root \in DOMAIN widgets
    /\ widgets[Root].preprocessors = <<"pp_id", "pp_mark">>
    /\ widgets[Root].extractors = <<"ex_count", "ex_soft">>

\* C14 witness: a widget composed after two registrations
C14_WitnessAfter ==
    /\ Composed
    /\ global_preprocessors = <<"pp_mark", "pp_id">>
    /\ widgets[Root].preprocessors = <<"pp_mark", "pp_id", "pp_mark">>

\* the widget the factory would build from "compound" in this state
FromCompound ==
    Compose(factories, global_preprocessors, NameCompound, "f1", PyStr("hello"), Custom).ret[Root]
ComposedDerived == Composed /\ op.arg \in {<<NameFieldset>>, <<NameForm>>}

\* C15: a widget composed from "fieldset" or "form" has the extractor chain
\* and the preprocessor chain of a widget composed from "compound" at the
\* same moment, and compound's renderer chain followed by one container
\* renderer, whatever the order of global registrations and blueprint
\* registrations was.
C15_DerivedBlueprints ==
    ComposedDerived =>
        /\ widgets[Root].extractors = FromCompound.extractors
        /\ widgets[Root].preprocessors = FromCompound.preprocessors
        /\ widgets[Root].renderers =
              FromCompound.renderers \o
              <<IF op.arg = <<NameFieldset>> THEN "fieldset_renderer" ELSE "form_renderer">>

\* the names of a composition resolve: a '*'-name in custom under the name
\* without the prefix, a plain name in the registry
Resolvable(names) ==
    \A i \in 1..Len(names) :
        IF StartsWithStar(names[i]) THEN Tail1(names[i]) \in DOMAIN Custom
        ELSE names[i] \in DOMAIN factories

\* C16: register fails for a name that starts with '*' and then leaves the
\* registry as it was, so no registry key ever starts with '*'; a composition
\* succeeds exactly when each '*'-name is in the caller's custom mapping under
\* the name without the prefix and each plain name is in the registry, and
\* takes each blueprint from there.
C16_StarNames ==
    [][/\ \A n \in DOMAIN factories' : ~StartsWithStar(n)
       /\ (op'.name = "register" /\ StartsWithStar(op'.arg)) =>
             (result'.exc = "ValueError" /\ factories' = factories)
       /\ (op'.name = "register" /\ ~StartsWithStar(op'.arg)) =>
             /\ result'.exc = "none"
             /\ DOMAIN factories' = DOMAIN factories \cup {op'.arg}
             /\ factories'[op'.arg] = BlueprintOf(op'.arg)
       /\ op'.name = "compose" =>
             /\ result'.exc = "none" <=> Resolvable(op'.arg)
             /\ result'.exc # "none" => (result'.exc = "KeyError" /\ widgets' = widgets)
             /\ result'.exc = "none" =>
                   widgets'[Root].extractors =
                       Flat(Reverse([i \in 1..Len(op'.arg) |->
                               IF StartsWithStar(op'.arg[i]) THEN Custom[Tail1(op'.arg[i])].ex
                               ELSE factories[op'.arg[i]].ex]), 1)]_vars

\* C16 witness: registering "*b" failed and left the registry with "b" alone
C16_Witness ==
    /\ op.name = "register"
    /\ op.arg = Star(NameB)
    /\ result.exc = "ValueError"
    /\ DOMAIN factories = {NameB}

\* C16 witness: "*b" does not resolve although "b" is registered
C16_WitnessStarOnlyCustom ==
    /\ op.name = "compose"
    /\ op.arg = <<Star(NameB)>>
    /\ NameB \in DOMAIN factories
    /\ result.exc = "KeyError"

\* C16 witness: a composition that takes "c" from custom and "b" from the
\* registry
C16_WitnessResolved ==
    /\ Composed
    /\ op.arg = <<Star(NameCustom), NameB>>
    /\ widgets[Root].extractors = <<"ex_count", "ex_soft", "ex_abort">>

(***************************************************************************)
(* HasSpec: records as extractors build them, and has_extracted on them.   *)
(***************************************************************************)
KeysFor(s) == SubSeq(ChildNames, 1, Len(s))

\* values a plain extractor returns
PlainValues == {None, PyInt(0), PyInt(1), PyStr("a")}
\* elements of the containers an extractor returns: a plain value, a record
\* nothing was extracted into, a record something was extracted into
Elements ==
    {PyInt(0), RuntimeData, [RuntimeData EXCEPT !.extracted = <<PyInt(1)>>]}

RECURSIVE Weight(_), WeightSeq(_, _)
\* the size of a value: its container elements, and the entries of extracted
\* after a record's first
Weight(x) ==
    CASE x.t \in {"list", "dict"} -> Len(x.v) + WeightSeq(x.v, 1)
      [] x.t = "rd" -> (IF Len(x.extracted) > 1 THEN Len(x.extracted) - 1 ELSE 0)
                       + WeightSeq(x.extracted, 1)
      [] OTHER -> 0
WeightSeq(s, i) == IF i > Len(s) THEN 0 ELSE Weight(s[i]) + WeightSeq(s, i + 1)

Container(kind, s) == IF kind = "list" THEN PyList(s) ELSE PyDict(KeysFor(s), s)

HasNotRun == [exc |-> "notrun", ret |-> None]

HasInit ==
    /\ widgets = <<>>
    /\ factories = <<>>
    /\ global_preprocessors = <<>>
    /\ data = RuntimeData
    /\ log = <<>>
    /\ result = HasNotRun
    /\ op = [name |-> "init"]

\* Widget.extract line 190: an extractor's value is appended to extracted
HasAppend ==
    /\ \E v \in PlainValues \cup
                {Container(kind, s) : kind \in {"list", "dict"},
                                      s \in SeqsUpTo({PyInt(0)}, MaxNodes - Weight(data))} :
           LET new == [data EXCEPT !.extracted = Append(@, v)]
           IN  /\ Weight(new) <= MaxNodes
               /\ data' = new
    /\ result' = HasNotRun
    /\ op' = [name |-> "append"]
    /\ UNCHANGED <<widgets, factories, global_preprocessors, log>>

\* compound_extractor (a mapping) or another extractor (a list) returns a
\* container holding the record among its siblings; the parent's extract
\* appends it to the parent's fresh record.
HasNest ==
    /\ Weight(data) < MaxNodes
    /\ \E kind \in {"list", "dict"} :
       \E left \in SeqsUpTo(Elements, MaxNodes - 1 - Weight(data)) :
       \E right \in SeqsUpTo(Elements, MaxNodes - 1 - Weight(data) - Len(left)) :
           LET new == [RuntimeData EXCEPT
                         !.extracted = <<Container(kind, left \o <<data>> \o right)>>]
           IN  /\ Weight(new) <= MaxNodes
               /\ data' = new
    /\ result' = HasNotRun
    /\ op' = [name |-> "nest"]
    /\ UNCHANGED <<widgets, factories, global_preprocessors, log>>

\* reading the has_extracted property of the record
HasExtractedCall ==
    /\ result' = HasExtracted(data)
    /\ op' = [name |-> "has_extracted"]
    /\ UNCHANGED <<widgets, factories, global_preprocessors, data, log>>

HasNext == HasAppend \/ HasNest \/ HasExtractedCall

HasSpec == HasInit /\ [][HasNext]_vars

(***************************************************************************)
(* Claims about has_extracted (HasSpec).                                   *)
(***************************************************************************)
HasRan == op.name = "has_extracted"
ChildOutcomes(s) == [i \in 1..Len(s) |-> HasExtracted(s[i])]
NoChildFails(s) == \A i \in 1..Len(s) : ChildOutcomes(s)[i].exc = "none"
SomeChildHas(s) ==
    \E i \in 1..Len(s) : ChildOutcomes(s)[i].exc = "none" /\ ChildOutcomes(s)[i].ret
AllRuntimeData(s) == CountRuntimeData(s) = Len(s)
Mixed(s) == CountRuntimeData(s) > 0 /\ CountRuntimeData(s) < Len(s)

\* C9: has_extracted on a record whose last_extracted is a mapping fails with
\* ValueError when some but not all values are RuntimeData, returns whether
\* the mapping has values when none is, and otherwise returns true iff some
\* child's has_extracted is true (a child's failure is the only other outcome).
C9_HasExtractedMapping ==
    (HasRan /\ IsDict(last_extracted(data))) =>
        LET values == DictValues(last_extracted(data))
        IN  /\ Mixed(values) => result = Raise("ValueError")
            /\ CountRuntimeData(values) = 0 => result = Return(Len(values) > 0)
            /\ (AllRuntimeData(values) /\ Len(values) > 0) =>
                  /\ result.exc = "none" => result.ret = SomeChildHas(values)
                  /\ NoChildFails(values) => result.exc = "none"
                  /\ result.exc # "none" =>
                        \E i \in 1..Len(values) : ChildOutcomes(values)[i] = result

\* C9 witness: a mapping of records two levels deep, one of which extracted
C9_Witness ==
    /\ HasRan
    /\ last_extracted(data).t = "dict"
    /\ Len(last_extracted(data).v) = 2
    /\ AllRuntimeData(last_extracted(data).v)
    /\ \E i \in 1..2 : last_extracted(last_extracted(data).v[i]).t = "list"
    /\ result = Return(TRUE)

\* C9 witness of the failure: a mapping mixing a record and a plain value
C9_WitnessMixed ==
    HasRan /\ last_extracted(data).t = "dict" /\ Mixed(last_extracted(data).v)
    /\ result = Raise("ValueError")

\* C10 as stated: on a last_extracted that is not a mapping, a sequence of
\* RuntimeData only answers whether some element has extracted, and every
\* other value, a mixed sequence included, answers its truthiness.
C10_AsStated ==
    (HasRan /\ ~IsDict(last_extracted(data))) =>
        LET last == last_extracted(data)
        IN  IF IsList(last) /\ AllRuntimeData(last.v)
            THEN NoChildFails(last.v) => result = Return(SomeChildHas(last.v))
            ELSE result = Return(Truthy(last))

\* C10 amended: a sequence holding at least one RuntimeData is scanned: if
\* all its elements are RuntimeData the answer is whether some element has
\* extracted (an element's failure is the only other outcome); if it mixes
\* RuntimeData with other elements has_extracted fails.  Every other value
\* (a sequence without RuntimeData, the empty sequence, the unset sentinel,
\* a plain value) answers its truthiness and does not fail.
C10_HasExtractedSequence ==
    (HasRan /\ ~IsDict(last_extracted(data))) =>
        LET last == last_extracted(data)
        IN  IF IsList(last) /\ CountRuntimeData(last.v) > 0
            THEN IF AllRuntimeData(last.v)
                 THEN /\ NoChildFails(last.v) => result = Return(SomeChildHas(last.v))
                      /\ result.exc # "none" =>
                            \E i \in 1..Len(last.v) : ChildOutcomes(last.v)[i] = result
                 ELSE /\ result.exc # "none"
                      /\ (\A i \in 1..Len(last.v) :
                              IsRuntimeData(last.v[i]) => ChildOutcomes(last.v)[i].exc = "none")
                            => result = Raise("AttributeError")
            ELSE result = Return(Truthy(last))

\* C10 witness: a sequence mixing a record that extracted with a plain value
C10_Witness ==
    /\ HasRan
    /\ IsList(last_extracted(data))
    /\ Mixed(last_extracted(data).v)
    /\ \E i \in 1..Len(last_extracted(data).v) :
          /\ IsRuntimeData(last_extracted(data).v[i])
          /\ HasExtracted(last_extracted(data).v[i]) = Return(TRUE)
    /\ result = Raise("AttributeError")

====
